---- MODULE Spec2Model ----
(***************************************************************************)
(* The map-feature views of OpenTreeMap 2                                  *)
(* (opentreemap/treemap/views/map_feature.py and views/__init__.py):       *)
(* the view pipelines, update_map_feature with its transaction, and the    *)
(* photo handlers.  One HTTP request is served at a time; its handler is   *)
(* followed statement by statement through pc.                             *)
(***************************************************************************)
EXTENDS Integers, Sequences, FiniteSets, TLC

VARIABLES
    db,       \* the committed database: features, trees, photos
    pc,       \* position of the request being served
    req,      \* the request being served
    handler,  \* the handler the view pipeline dispatched to ("none": rejected)
    checks,   \* the pipeline's guards passed by the request, in order
    upd,      \* locals of update_map_feature (and the open transaction)
    resp,     \* the response of the request
    before,   \* the database as it was when the request arrived
    served    \* number of requests accepted so far

vars == <<db, pc, req, handler, checks, upd, resp, before, served>>

----------------------------------------------------------------------------
(* Bounds of the model *)

\* requests served in one behaviour
MaxRequests == 1

\* keys in one request dictionary
MaxKeys == 2

----------------------------------------------------------------------------
(* Values.  A JSON / Python value is a record [t, n, s]: t is its type, n   *)
(* its number (or primary key), s its text.  A text of "#" is the decimal   *)
(* numeral of n, so that 1 and "1" are different values, as in Python.      *)

IntV(n) == [t |-> "int", n |-> n, s |-> ""]
StrV(s) == [t |-> "str", n |-> 0, s |-> s]
Numeral(n) == [t |-> "str", n |-> n, s |-> "#"]
None == [t |-> "none", n |-> 0, s |-> ""]
\* a model instance used as a value (a Plot, a Species); n is its pk
Obj(class, pk) == [t |-> class, n |-> pk, s |-> "obj"]
\* the JSON object {"x":..,"y":..,"srid": n}; n = 0: no "srid" key
PointDict(srid) == [t |-> "dict", n |-> srid, s |-> "xy"]
PolygonDict(srid) == [t |-> "dict", n |-> srid, s |-> "polygon"]

\* a primary key that is not set (pk is None)
NoPk == 0

\* python's unicode(pk)
unicode(pk) == IF pk = NoPk THEN StrV("None") ELSE Numeral(pk)

\* a value that fails the model's validation on save
Bad == StrV("bad")

----------------------------------------------------------------------------
(* Strings that the code takes apart are sequences of tokens; "." and      *)
(* "udf:" are tokens of their own.                                         *)

RECURSIVE IndexOf(_, _, _)
\* position of the first tok in s at or after i, 0 when there is none
IndexOf(s, tok, i) ==
    IF i > Len(s) THEN 0
    ELSE IF s[i] = tok THEN i
    ELSE IndexOf(s, tok, i + 1)

\* identifier.split('.', 1)
Split1(identifier) ==
    LET i == IndexOf(identifier, ".", 1)
    IN  IF i = 0 THEN <<identifier>>
        ELSE <<SubSeq(identifier, 1, i - 1),
               SubSeq(identifier, i + 1, Len(identifier))>>

\* attr.startswith('udf:')
StartsWithUdf(attr) == Len(attr) > 0 /\ attr[1] = "udf:"

\* attr[4:] of an attr that starts with 'udf:'
UdfName(attr) == Tail(attr)

RECURSIVE Join(_, _)
\* sep.join(msgs)
Join(sep, msgs) ==
    IF Len(msgs) = 0 THEN <<>>
    ELSE IF Len(msgs) = 1 THEN <<msgs[1]>>
    ELSE <<msgs[1], sep>> \o Join(sep, Tail(msgs))

\* treemap.util.to_object_name: the class name with its first letter lowered
to_object_name(name) ==
    CASE name = "Plot" -> "plot"
      [] name = "RainBarrel" -> "rainBarrel"
      [] name = "Tree" -> "tree"
      [] OTHER -> name

----------------------------------------------------------------------------
(* The model layer, as far as the views use it *)

\* the instance of the requests, and another one
ThisInstance == "thiscity"
OtherInstance == "othercity"

\* instance.map_feature_types
map_feature_types == <<"Plot", "RainBarrel">>

\* model.fields(): the tracked fields of a map feature and of a tree
FeatureFields == {"geom", "width"}
TreeFields == {"height", "plot", "species"}
ModelFields(class) == IF class = "Tree" THEN TreeFields ELSE FeatureFields

\* names model._meta knows besides 'id' and model.fields(): the parent link
\* of a map feature type, and the reverse relation of Tree.plot
MetaOnly(class) ==
    IF class = "Tree" THEN {}
    ELSE IF class = "Plot" THEN {"mapfeature_ptr", "tree"}
    ELSE {"mapfeature_ptr"}

\* model.get_user_defined_fields(), by name
UdfNames(class) == {"color"}

\* the species of ThisInstance
SpeciesIds == {5}

NoVal == None

\* a map feature whose fields are all unset
BlankFeature(type, instance) ==
    [pk |-> NoPk, instance |-> instance, feature_type |-> type,
     fields |-> [f \in FeatureFields |-> NoVal],
     udfs |-> [u \in UdfNames(type) |-> NoVal],
     units |-> "db"]

\* MapFeature.create(type, instance)
MapFeatureCreate(type, instance) == BlankFeature(type, instance)

\* Tree(instance=instance)
NewTree(instance) ==
    [pk |-> NoPk, instance |-> instance, feature_type |-> "Tree",
     fields |-> [f \in TreeFields |-> NoVal],
     udfs |-> [u \in UdfNames("Tree") |-> NoVal],
     units |-> "db"]

\* the value absent records stand for
NoRecord == [pk |-> NoPk, instance |-> "", feature_type |-> "",
             fields |-> [f \in {"none"} |-> NoVal],
             udfs |-> [u \in {"none"} |-> NoVal], units |-> "db"]

----------------------------------------------------------------------------
(* The database *)

\* a stored photo: its map feature, the rotation of its image in degrees,
\* and the user of its last save
Photo(feature, rotation, user) ==
    [map_feature |-> feature, rotation |-> rotation, user |-> user]

Old == StrV("old")
New == StrV("new")

StoredFeature(pk, type, instance) ==
    [BlankFeature(type, instance) EXCEPT
        !.pk = pk, !.fields = [f \in FeatureFields |-> Old]]

StoredTree(pk, plot, instance) ==
    [NewTree(instance) EXCEPT
        !.pk = pk,
        !.fields = [f \in TreeFields |->
                      IF f = "plot" THEN Obj("Plot", plot)
                      ELSE IF f = "species" THEN None ELSE Old]]

\* Plot 1 has tree 10, plot 2 has no tree, 3 is a rain barrel; plot 4 is
\* in another instance.  Photo 100 is of plot 1, 101 of plot 2, 102 of plot 4.
InitialDb ==
    [features |-> (1 :> StoredFeature(1, "Plot", ThisInstance)
                @@ 2 :> StoredFeature(2, "Plot", ThisInstance)
                @@ 3 :> StoredFeature(3, "RainBarrel", ThisInstance)
                @@ 4 :> StoredFeature(4, "Plot", OtherInstance)),
     trees |-> (10 :> StoredTree(10, 1, ThisInstance)),
     photos |-> (100 :> Photo(1, 0, "importer")
              @@ 101 :> Photo(2, 0, "importer")
              @@ 102 :> Photo(4, 0, "importer"))]

\* the primary key the database gives the next row of a table
NextPk(table) ==
    (CHOOSE m \in DOMAIN table : \A k \in DOMAIN table : k <= m) + 1

\* get_map_feature_or_404(feature_id, instance, type): the feature, or
\* NoRecord when the lookup raises Http404
get_map_feature_or_404(d, feature_id, instance, type) ==
    IF /\ feature_id \in DOMAIN d.features
       /\ d.features[feature_id].instance = instance
       /\ (type = "" \/ d.features[feature_id].feature_type = type)
    THEN d.features[feature_id]
    ELSE NoRecord

\* plot.current_tree(): the tree of the plot, NoRecord when it has none
current_tree(d, feature) ==
    LET ts == {t \in DOMAIN d.trees :
                 d.trees[t].fields["plot"] = Obj("Plot", feature.pk)}
    IN  IF feature.pk = NoPk \/ ts = {} THEN NoRecord
        ELSE d.trees[CHOOSE t \in ts : \A o \in ts : o <= t]

\* feature.photos(): the photos of the feature
photos(d, feature) ==
    {p \in DOMAIN d.photos : d.photos[p].map_feature = feature.pk}

\* context_dict_for_photo, of the photo p
context_dict_for_photo(d, p) ==
    [id |-> p, image |-> d.photos[p].rotation]

Table(d, thing) ==
    IF thing.feature_type = "Tree" THEN d.trees ELSE d.features

\* thing.fields_were_updated(): a record that is not stored yet, or one
\* that differs from its stored row
fields_were_updated(d, thing) ==
    \/ thing.pk = NoPk
    \/ thing.fields # Table(d, thing)[thing.pk].fields
    \/ thing.udfs # Table(d, thing)[thing.pk].udfs

\* the per-field messages of the validation of thing (full_clean); the
\* plot of a tree has to be a stored plot
ValidationMessages(d, thing) ==
    LET bad == {f \in DOMAIN thing.fields : thing.fields[f] = Bad}
        noPlot == IF /\ thing.feature_type = "Tree"
                     /\ thing.fields["plot"].n \notin DOMAIN d.features
                  THEN {"plot"} ELSE {}
    IN  [f \in bad \cup noPlot |->
            IF f \in bad THEN <<"invalid">> ELSE <<"null">>]

\* package_validation_errors(model_name, e): the messages of e keyed by
\* 'objectname.field'
package_validation_errors(model_name, message_dict) ==
    LET key(f) == <<to_object_name(model_name), ".", f>>
    IN  [k \in {key(f) : f \in DOMAIN message_dict} |->
            message_dict[CHOOSE f \in DOMAIN message_dict : key(f) = k]]

\* thing.save_with_user(user) when validation passes: the database with
\* the row of thing written (a new row gets the next primary key)
Stored(d, thing) ==
    LET pk == IF thing.pk = NoPk THEN NextPk(Table(d, thing)) ELSE thing.pk
        row == [thing EXCEPT !.pk = pk, !.units = "db"]
    IN  IF thing.feature_type = "Tree"
        THEN [d EXCEPT !.trees = (pk :> row) @@ d.trees]
        ELSE [d EXCEPT !.features = (pk :> row) @@ d.features]

\* dict.update
DictUpdate(a, b) ==
    [k \in DOMAIN a \cup DOMAIN b |-> IF k \in DOMAIN b THEN b[k] ELSE a[k]]

EmptyDict == [k \in {} |-> <<>>]

----------------------------------------------------------------------------
(* The view composition layer (views/__init__.py).  A pipeline is the      *)
(* sequence of the decorators of do(...), outermost first, ending in a     *)
(* handler or in a route(...) whose table maps methods to pipelines.       *)

NoTable == [m \in {} |-> <<>>]
Dec(name, arg) == [kind |-> "dec", name |-> name, arg |-> arg, table |-> NoTable]
Fn(name) == <<[kind |-> "handler", name |-> name, arg |-> "", table |-> NoTable]>>
route(table) == [kind |-> "route", name |-> "route", arg |-> "", table |-> table]

require_http_method(m) == Dec("require_http_method", m)
login_or_401 == Dec("login_or_401", "")
instance_request == Dec("instance_request", "")
json_api_call == Dec("json_api_call", "")
creates_instance_user == Dec("creates_instance_user", "")
render_template(t) == Dec("render_template", t)

add_map_feature_photo_do(fn) ==
    <<require_http_method("POST"),
      login_or_401,
      instance_request,
      creates_instance_user,
      render_template("treemap/partials/photo_carousel.html")>> \o fn

map_feature_add_view ==
    <<instance_request,
      route("GET" :> Fn("render_map_feature_add")
         @@ "POST" :> (<<login_or_401,
                         json_api_call,
                         creates_instance_user>> \o Fn("add_map_feature")))>>

\* the detail view with the login check left out of its ELSE branch
map_feature_detail_view_NoLogin ==
    <<instance_request,
      route("GET" :> Fn("render_map_feature_detail")
         @@ "ELSE" :> <<json_api_call,
                        creates_instance_user,
                        route("PUT" :> Fn("update_map_feature_detail")
                           @@ "DELETE" :> Fn("delete_map_feature"))>>)>>

map_feature_detail_view ==
    <<instance_request,
      route("GET" :> Fn("render_map_feature_detail")
         @@ "ELSE" :> <<login_or_401,
                        json_api_call,
                        creates_instance_user,
                        route("PUT" :> Fn("update_map_feature_detail")
                           @@ "DELETE" :> Fn("delete_map_feature"))>>)>>

add_map_feature_photo_endpoint ==
    add_map_feature_photo_do(Fn("add_map_feature_photo"))

rotate_map_feature_photo_endpoint ==
    add_map_feature_photo_do(Fn("rotate_map_feature_photo"))

Views == {"map_feature_add_view", "map_feature_detail_view",
          "add_map_feature_photo_endpoint",
          "rotate_map_feature_photo_endpoint"}

Pipeline(view) ==
    CASE view = "map_feature_add_view" -> map_feature_add_view
      [] view = "map_feature_detail_view" -> map_feature_detail_view
      [] view = "add_map_feature_photo_endpoint" ->
            add_map_feature_photo_endpoint
      [] view = "rotate_map_feature_photo_endpoint" ->
            rotate_map_feature_photo_endpoint

Rejected(status, passed) ==
    [handler |-> "none", status |-> status, checks |-> passed]

RECURSIVE RunPipeline(_, _, _)
\* the handler the request r reaches through the pipeline p, or the status
\* of the decorator or route that turned it away; passed: the guards the
\* request has passed so far
RunPipeline(p, r, passed) ==
    LET st == Head(p)
    IN  CASE st.kind = "handler" ->
               [handler |-> st.name, status |-> 200, checks |-> passed]
          [] st.kind = "route" ->
               IF r.method \in DOMAIN st.table
               THEN RunPipeline(st.table[r.method], r,
                                Append(passed, "route"))
               ELSE IF "ELSE" \in DOMAIN st.table
               THEN RunPipeline(st.table["ELSE"], r, passed)
               ELSE Rejected(405, passed)
          [] st.kind = "dec" /\ st.name = "require_http_method" ->
               IF r.method = st.arg
               THEN RunPipeline(Tail(p), r, Append(passed, "method"))
               ELSE Rejected(405, passed)
          [] st.kind = "dec" /\ st.name = "login_or_401" ->
               IF r.auth
               THEN RunPipeline(Tail(p), r, Append(passed, "login"))
               ELSE Rejected(401, passed)
          [] OTHER -> RunPipeline(Tail(p), r, passed)

----------------------------------------------------------------------------
(* update_map_feature (views/map_feature.py) *)

NoExc == [kind |-> "", msg |-> ""]
Exc(kind, msg) == [kind |-> kind, msg |-> msg]

\* python truthiness of a value
Truthy(v) == v \notin {None, IntV(0), StrV("")}

\* the primary key of a record as a python value
PkValue(pk) == IF pk = NoPk THEN None ELSE IntV(pk)

\* feature_object_names
feature_object_names ==
    {<<to_object_name(map_feature_types[i])>> : i \in DOMAIN map_feature_types}

\* split_model_or_raise(identifier): the two parts, or the exception
split_model_or_raise(identifier) ==
    LET parts == Split1(identifier)
    IN  IF \/ Len(parts) # 2
           \/ parts[1] \notin feature_object_names \cup {<<"tree">>}
        THEN [exc |-> Exc("Exception", "Malformed request - invalid field"),
              object_name |-> <<>>, field |-> <<>>]
        ELSE [exc |-> NoExc, object_name |-> parts[1], field |-> parts[2]]

\* a loop that takes every 'tree' key for the tree, whatever the feature is
ModelFor_AnyFeature(object_name, feature) ==
    IF object_name \in feature_object_names THEN "feature"
    ELSE IF object_name = <<"tree">> THEN "tree"
    ELSE "raise"

\* the record the loop picks for object_name: "feature", "tree", or
\* "raise" for the 'invalid model' exception
ModelFor(object_name, feature) ==
    IF object_name \in feature_object_names THEN "feature"
    ELSE IF object_name = <<"tree">> /\ feature.feature_type = "Plot"
    THEN "tree"
    ELSE "raise"

\* model._meta.get_field_by_name(attr)[0].__class__.__name__; "" when the
\* lookup raises FieldDoesNotExist: attr is no field model._meta knows
\* ('udf:' names resolve to a proxy field)
FieldClassname(model, attr) ==
    IF StartsWithUdf(attr) THEN "_UDFProxy"
    ELSE IF Len(attr) # 1 THEN ""
    ELSE IF attr[1] = "id" THEN "AutoField"
    ELSE IF attr[1] \in MetaOnly(model.feature_type) THEN "RelatedObject"
    ELSE IF attr[1] \notin ModelFields(model.feature_type) THEN ""
    ELSE CASE attr[1] = "geom" -> "PointField"
           [] attr[1] = "polygon" -> "MultiPolygonField"
           [] attr[1] \in {"plot", "species"} -> "ForeignKey"
           [] OTHER -> "FloatField"

\* Point(val['x'], val['y'], srid=val.get('srid', 3857)) transformed to
\* 3857, and MultiPolygon(Polygon(val['polygon'], srid), srid) with
\* val.get('srid', 4326) transformed to 3857; s keeps the source srid
Geometry(class, val) ==
    LET default == IF class = "Point" THEN 3857 ELSE 4326
        srid == IF val.n = 0 THEN default ELSE val.n
    IN  [t |-> class, n |-> 3857,
         s |-> IF srid = 3857 THEN "same" ELSE "transformed"]

\* the geometry coercion at the head of set_attr_on_model
Coerce(classname, val) ==
    LET want == IF classname = "PointField" THEN "xy" ELSE "polygon"
        class == IF classname = "PointField" THEN "Point" ELSE "MultiPolygon"
    IN  IF classname \notin {"PointField", "MultiPolygonField"}
        THEN [exc |-> NoExc, val |-> val]
        ELSE IF val.t # "dict"
        THEN [exc |-> Exc("AttributeError", "get"), val |-> val]
        ELSE IF val.s # want
        THEN [exc |-> Exc("KeyError", want), val |-> val]
        ELSE [exc |-> NoExc, val |-> Geometry(class, val)]

\* model.apply_change(attr, val): the attribute is set; a relation takes
\* only an instance of its class or None
apply_change(model, attr, val) ==
    LET class == IF attr = "plot" THEN "Plot" ELSE "Species"
    IN  IF attr \in {"plot", "species"} /\ val # None /\ val.t # class
        THEN [exc |-> Exc("ValueError", "must be an instance"),
              model |-> model]
        ELSE [exc |-> NoExc,
              model |-> [model EXCEPT !.fields[attr] = val]]

\* an 'id' key that is not checked
IdMatches_Unchecked(model, val) == TRUE

\* the check of an 'id' key: val != model.pk raises
IdMatches(model, val) == val = PkValue(model.pk)

\* set_attr_on_model(model, attr, val); value is the value of the
\* enclosing loop, which the mapfeature_ptr check reads
set_attr_on_model(model, attr, val0, value) ==
    LET classname == FieldClassname(model, attr)
        co == Coerce(classname, val0)
        val == co.val
        raise(e) == [exc |-> e, model |-> model]
    IN  IF classname = ""
        THEN raise(Exc("FieldDoesNotExist", "no field named"))
        ELSE IF co.exc # NoExc THEN raise(co.exc)
        ELSE IF attr = <<"mapfeature_ptr">>
        THEN IF PkValue(model.pk) # value
             THEN raise(Exc("Exception",
                            "You may not change the mapfeature_ptr_id"))
             ELSE [exc |-> NoExc, model |-> model]
        ELSE IF attr = <<"id">>
        THEN IF ~IdMatches(model, val)
             THEN raise(Exc("Exception", "Can't update id attribute"))
             ELSE [exc |-> NoExc, model |-> model]
        ELSE IF StartsWithUdf(attr)
        THEN IF /\ Len(UdfName(attr)) = 1
                /\ UdfName(attr)[1] \in UdfNames(model.feature_type)
             THEN [exc |-> NoExc,
                   model |-> [model EXCEPT !.udfs[UdfName(attr)[1]] = val]]
             ELSE raise(Exc("KeyError", "Invalid UDF"))
        ELSE IF Len(attr) = 1 /\ attr[1] \in ModelFields(model.feature_type)
        THEN apply_change(model, attr[1], val)
        ELSE raise(Exc("Exception", "Malformed request - invalid field"))

\* get_object_or_404(Species, instance=feature.instance, pk=value)
GetSpecies(value) ==
    IF value.t = "int" /\ value.n \in SpeciesIds
    THEN [exc |-> NoExc, val |-> Obj("Species", value.n)]
    ELSE [exc |-> Exc("Http404", "Species"), val |-> value]

\* the value of a 'tree.' key as the loop rewrites it
TreeValue(feature, field, value) ==
    IF field = <<"species">> /\ Truthy(value) THEN GetSpecies(value)
    ELSE IF field = <<"plot">> /\ value = unicode(feature.pk)
    THEN [exc |-> NoExc, val |-> Obj("Plot", feature.pk)]
    ELSE [exc |-> NoExc, val |-> value]

\* the tree saved before the feature
SaveOrder_TreeFirst == <<"tree", "feature">>

\* the order of the two saves at the end of update_map_feature
SaveOrder == <<"feature", "tree">>

\* errors = more: the later save's errors replace the earlier ones
UpdateErrors_Replace(errors, more) == more

\* errors.update(more)
UpdateErrors(errors, more) == DictUpdate(errors, more)

\* no transaction: what the call wrote stays, whether it raised or not
commit_on_success_Never(atEntry, written, raised) == written

\* @transaction.commit_on_success: the database after the call, from the
\* database before it and the one the call wrote
commit_on_success(atEntry, written, raised) ==
    IF raised THEN atEntry ELSE written

----------------------------------------------------------------------------
(* Requests *)

Methods == {"GET", "POST", "PUT", "DELETE"}
Types == {"Plot", "RainBarrel"}
User == "alice"

Item(id, val) == [id |-> id, val |-> val]

\* the keys and values request dictionaries combine
Items ==
    { Item(<<"plot", ".", "width">>, New),
      Item(<<"plot", ".", "width">>, Bad),
      Item(<<"plot", ".", "udf:", "color">>, New),
      Item(<<"plot", ".", "udf:", "nope">>, New),
      Item(<<"plot", ".", "bogus">>, New),
      Item(<<"plot", ".", "id">>, IntV(1)),
      Item(<<"tree", ".", "height">>, New),
      Item(<<"tree", ".", "height">>, Bad),
      Item(<<"tree", ".", "id">>, IntV(10)) }

\* keys of the other cases of the loop; a request has one of them alone
LoneItems ==
    { Item(<<"rainBarrel", ".", "width">>, New),
      Item(<<"plot", ".", "tree">>, New),
      Item(<<"plot", ".", "mapfeature_ptr">>, IntV(1)),
      Item(<<"plot", ".", "id">>, Numeral(1)),
      Item(<<"plotwidth">>, New),
      Item(<<"user", ".", "name">>, New),
      Item(<<"plot", ".", "geom">>, PointDict(4326)),
      Item(<<"plot", ".", "geom">>, New),
      Item(<<"tree", ".", "plot">>, Numeral(1)),
      Item(<<"tree", ".", "plot">>, IntV(1)),
      Item(<<"tree", ".", "species">>, IntV(5)),
      Item(<<"tree", ".", "species">>, IntV(6)) }

\* the request dictionaries: at most MaxKeys items, no key twice
Dicts ==
    {d \in SUBSET Items :
        /\ Cardinality(d) <= MaxKeys
        /\ \A x, y \in d : x.id = y.id => x = y}
    \cup {{x} : x \in LoneItems}

FeatureIdArgs == {1, 2, 3, 4}
PhotoIdArgs == {100, 101, 102, 199}
DegreesArgs == {"missing", "90", "180", "270", "-90", "-180", "-270",
                "0", "360", "45", "abc"}
ImageArgs == {"image", "empty", "broken"}

Request(view, method, auth) ==
    [view |-> view, method |-> method, auth |-> auth, instance |-> ThisInstance,
     feature_id |-> 0, type |-> "Plot", photo_id |-> 0, degrees |-> "missing",
     image |-> "", body |-> {}]

NoRequest == Request("", "", FALSE)

\* the requests of a view; a request dictionary is the JSON body of the
\* POST or PUT of a logged-in user
RequestsOf(view) ==
    LET base == {Request(view, m, a) : m \in Methods, a \in BOOLEAN}
        hasBody(r) == r.auth /\ r.method \in {"POST", "PUT"}
    IN  CASE view = "map_feature_add_view" ->
               {r \in {[b EXCEPT !.type = t, !.body = d] :
                          b \in base, t \in Types, d \in Dicts} :
                    r.body = {} \/ hasBody(r)}
          [] view = "map_feature_detail_view" ->
               {r \in {[b EXCEPT !.type = t, !.body = d, !.feature_id = f] :
                          b \in base, t \in Types, d \in Dicts,
                          f \in FeatureIdArgs} :
                    r.body = {} \/ hasBody(r)}
          [] view = "add_map_feature_photo_endpoint" ->
               {[b EXCEPT !.feature_id = f, !.image = i] :
                    b \in base, f \in FeatureIdArgs, i \in ImageArgs}
          [] view = "rotate_map_feature_photo_endpoint" ->
               {[b EXCEPT !.feature_id = f, !.photo_id = p, !.degrees = g] :
                    b \in base, f \in FeatureIdArgs, p \in PhotoIdArgs,
                    g \in DegreesArgs}

----------------------------------------------------------------------------
(* Responses *)

ErrNone == [none |-> TRUE, text |-> <<>>]
ErrText(t) == [none |-> FALSE, text |-> t]

\* a response: its status; for the update views ok, errors (the
\* validation_error_dict of a bad request), featureId and treeId; for the
\* photo views error and photos; exc: the exception that ended the request
Response(status) ==
    [status |-> status, ok |-> FALSE, errors |-> EmptyDict,
     featureId |-> NoPk, treeId |-> NoPk,
     error |-> ErrNone, photos |-> {}, exc |-> NoExc]

NoResponse == Response(0)

\* the response of an exception no view catches
Uncaught(e) ==
    [Response(IF e.kind = "Http404" THEN 404 ELSE 500) EXCEPT !.exc = e]

\* bad_request_json_response(validation_error_dict=d)
bad_request_json_response(d) == [Response(400) EXCEPT !.errors = d]

----------------------------------------------------------------------------
(* State *)

NoUpdate ==
    [feature0 |-> NoRecord,
     feature |-> NoRecord, tree |-> NoRecord, hasTree |-> FALSE,
     pending |-> {}, errors |-> EmptyDict, exc |-> NoExc,
     tx |-> InitialDb, saves |-> <<>>, routed |-> {}, step |-> 0]

Init ==
    /\ db = InitialDb
    /\ pc = "idle"
    /\ req = NoRequest
    /\ handler = "none"
    /\ checks = <<>>
    /\ upd = NoUpdate
    /\ resp = NoResponse
    /\ before = InitialDb
    /\ served = 0

\* the request ends with the response r
Reply(r) ==
    /\ resp' = r
    /\ pc' = "done"

\* A request arrives and runs through the pipeline of its view: it reaches
\* a handler, or a decorator or route answers it.
Dispatch ==
    /\ pc = "idle"
    /\ served < MaxRequests
    /\ \E view \in Views : \E r \in RequestsOf(view) :
          LET out == RunPipeline(Pipeline(view), r, <<>>)
          IN  /\ req' = r
              /\ handler' = out.handler
              /\ checks' = out.checks
              /\ IF out.handler = "none"
                 THEN Reply(Response(out.status))
                 ELSE /\ pc' = "handler"
                      /\ resp' = NoResponse
    /\ served' = served + 1
    /\ upd' = NoUpdate
    /\ before' = db
    /\ UNCHANGED db

\* The response is sent; nothing of the request stays but the database.
Close ==
    /\ pc = "done"
    /\ pc' = "idle"
    /\ req' = NoRequest
    /\ handler' = "none"
    /\ checks' = <<>>
    /\ upd' = NoUpdate
    /\ resp' = NoResponse
    /\ before' = db
    /\ UNCHANGED <<db, served>>

AtHandler(name) == pc = "handler" /\ handler = name

\* render_map_feature_add(request, instance, type)
render_map_feature_add ==
    /\ AtHandler("render_map_feature_add")
    /\ Reply(IF \E i \in 2..Len(map_feature_types) :
                   map_feature_types[i] = req.type
             THEN Response(200)
             ELSE Uncaught(Exc("Http404", "feature type")))
    /\ UNCHANGED <<db, req, handler, checks, upd, before, served>>

\* render_map_feature_detail -> map_feature_detail(render=True)
render_map_feature_detail ==
    /\ AtHandler("render_map_feature_detail")
    /\ Reply(IF get_map_feature_or_404(db, req.feature_id, req.instance, "")
                  = NoRecord
             THEN Uncaught(Exc("Http404", "MapFeature"))
             ELSE Response(200))
    /\ UNCHANGED <<db, req, handler, checks, upd, before, served>>

\* update_map_feature is entered with feature: the transaction opens, the
\* feature is converted to display units, the loop starts
EnterUpdate(feature) ==
    /\ upd' = [NoUpdate EXCEPT
                  !.feature0 = feature,
                  !.feature = [feature EXCEPT !.units = "display"],
                  !.pending = req.body,
                  !.tx = db]
    /\ pc' = "update_loop"
    /\ resp' = NoResponse

\* add_map_feature(request, instance, type)
add_map_feature ==
    /\ AtHandler("add_map_feature")
    /\ EnterUpdate(MapFeatureCreate(req.type, req.instance))
    /\ UNCHANGED <<db, req, handler, checks, before, served>>

\* update_map_feature_detail(request, instance, feature_id, type)
update_map_feature_detail ==
    /\ AtHandler("update_map_feature_detail")
    /\ LET feature == get_map_feature_or_404(db, req.feature_id,
                                             req.instance, req.type)
       IN  IF feature = NoRecord
           THEN /\ Reply(Uncaught(Exc("Http404", "MapFeature")))
                /\ upd' = upd
           ELSE EnterUpdate(feature)
    /\ UNCHANGED <<db, req, handler, checks, before, served>>

\* where update_map_feature goes after a pass of its loop
AfterLoop(pending, exc) ==
    IF exc # NoExc THEN "update_exit"
    ELSE IF pending = {} THEN "update_save"
    ELSE "update_loop"

\* the tree the loop edits: the one it has, else the plot's current tree,
\* else a new tree of the feature's instance
TreeToEdit(u) ==
    IF u.hasTree THEN u.tree
    ELSE IF current_tree(u.tx, u.feature) # NoRecord
    THEN current_tree(u.tx, u.feature)
    ELSE NewTree(u.feature.instance)

\* one pass of the loop over request_dict.iteritems(), for item
LoopBody(u, item) ==
    LET sp == split_model_or_raise(item.id)
        target == IF sp.exc # NoExc THEN "raise"
                  ELSE ModelFor(sp.object_name, u.feature)
        tree1 == [TreeToEdit(u) EXCEPT !.units = "display"]
        tv == TreeValue(u.feature, sp.field, item.val)
        set == IF target = "feature"
               THEN set_attr_on_model(u.feature, sp.field, item.val, item.val)
               ELSE set_attr_on_model(tree1, sp.field, tv.val, tv.val)
        exc == IF sp.exc # NoExc THEN sp.exc
               ELSE IF target = "raise"
               THEN Exc("Exception", "Malformed request - invalid model")
               ELSE IF target = "tree" /\ tv.exc # NoExc THEN tv.exc
               ELSE set.exc
        feature == IF target = "feature" THEN set.model ELSE u.feature
        tree == IF target # "tree" THEN u.tree
                ELSE IF tv.exc # NoExc THEN tree1
                ELSE set.model
    IN  [u EXCEPT
            !.pending = u.pending \ {item},
            !.feature = feature,
            !.tree = tree,
            !.hasTree = u.hasTree \/ target = "tree",
            !.exc = exc,
            !.routed = u.routed \cup
                          {[id |-> item.id, target |-> target,
                            raised |-> exc # NoExc,
                            onFeature |-> feature # u.feature,
                            onTree |-> tree # u.tree,
                            changed |->
                               \/ feature # u.feature
                               \/ /\ target = "tree"
                                  /\ tree # tree1]}]

\* for (identifier, value) in request_dict.iteritems(): ...
update_map_feature_loop ==
    /\ pc = "update_loop"
    /\ IF upd.pending = {}
       THEN /\ upd' = [upd EXCEPT !.step = 1]
            /\ pc' = "update_save"
       ELSE \E item \in upd.pending :
               LET u == LoopBody(upd, item)
               IN  /\ upd' = [u EXCEPT !.step = 1]
                   /\ pc' = AfterLoop(u.pending, u.exc)
    /\ UNCHANGED <<db, req, handler, checks, resp, before, served>>

\* save_and_return_errors(thing, user), on the database d of the open
\* transaction
save_and_return_errors(d, thing0) ==
    LET thing == [thing0 EXCEPT !.units = "db"]
        msgs == ValidationMessages(d, thing)
        pk == IF thing.pk = NoPk THEN NextPk(Table(d, thing)) ELSE thing.pk
    IN  IF DOMAIN msgs = {}
        THEN [db |-> Stored(d, thing), thing |-> [thing EXCEPT !.pk = pk],
              errors |-> EmptyDict]
        ELSE [db |-> d, thing |-> thing,
              errors |-> package_validation_errors(thing.feature_type, msgs)]

SaveEvent(thing, r, plot, d) ==
    [thing |-> thing, ok |-> DOMAIN r.errors = {}, pk |-> r.thing.pk,
     errors |-> r.errors,
     plot |-> plot, plotStored |-> plot \in DOMAIN d.features]

AfterSave(step) ==
    IF step = Len(SaveOrder) THEN "update_exit" ELSE "update_save"

\* if feature.fields_were_updated(): errors.update(save_and_return_errors(..))
update_map_feature_save_feature ==
    /\ pc = "update_save"
    /\ SaveOrder[upd.step] = "feature"
    /\ LET r == save_and_return_errors(upd.tx, upd.feature)
       IN  upd' = IF fields_were_updated(upd.tx, upd.feature)
                  THEN [upd EXCEPT
                           !.feature = r.thing,
                           !.tx = r.db,
                           !.errors = UpdateErrors(upd.errors, r.errors),
                           !.saves = Append(upd.saves,
                                            SaveEvent("feature", r, NoPk,
                                                      upd.tx)),
                           !.step = upd.step + 1]
                  ELSE [upd EXCEPT !.step = upd.step + 1]
    /\ pc' = AfterSave(upd.step)
    /\ UNCHANGED <<db, req, handler, checks, resp, before, served>>

\* if tree and tree.fields_were_updated(): tree.plot = feature; errors.update(..)
update_map_feature_save_tree ==
    /\ pc = "update_save"
    /\ SaveOrder[upd.step] = "tree"
    /\ LET tree == [upd.tree EXCEPT
                       !.fields["plot"] = Obj("Plot", upd.feature.pk)]
           r == save_and_return_errors(upd.tx, tree)
       IN  upd' = IF upd.hasTree /\ fields_were_updated(upd.tx, upd.tree)
                  THEN [upd EXCEPT
                           !.tree = r.thing,
                           !.tx = r.db,
                           !.errors = UpdateErrors(upd.errors, r.errors),
                           !.saves = Append(upd.saves,
                                            SaveEvent("tree", r,
                                                      upd.feature.pk, upd.tx)),
                           !.step = upd.step + 1]
                  ELSE [upd EXCEPT !.step = upd.step + 1]
    /\ pc' = AfterSave(upd.step)
    /\ UNCHANGED <<db, req, handler, checks, resp, before, served>>

\* the exception update_map_feature ends with: the one of its loop, or
\* ValidationError(errors) when a save reported errors
Raised(u) ==
    IF u.exc # NoExc THEN u.exc
    ELSE IF DOMAIN u.errors # {} THEN Exc("ValidationError", "errors")
    ELSE NoExc

\* _request_to_update_map_feature: the result of the call as a response
request_to_update_map_feature(u) ==
    LET e == Raised(u)
    IN  IF e = NoExc
        THEN [Response(200) EXCEPT
                 !.ok = TRUE,
                 !.featureId = u.feature.pk,
                 !.treeId = IF u.hasTree THEN u.tree.pk ELSE NoPk]
        ELSE IF e.kind = "ValidationError"
        THEN bad_request_json_response(u.errors)
        ELSE Uncaught(e)

\* update_map_feature raises or returns: the transaction is rolled back
\* or committed, and _request_to_update_map_feature answers
update_map_feature_exit ==
    /\ pc = "update_exit"
    /\ db' = commit_on_success(db, upd.tx, Raised(upd) # NoExc)
    /\ Reply(request_to_update_map_feature(upd))
    /\ UNCHANGED <<req, handler, checks, upd, before, served>>

\* feature.delete_with_user(user): a plot that has a tree is not deleted
\* (ValidationError); else the row goes, and its photos with it
delete_with_user(d, feature) ==
    IF current_tree(d, feature) # NoRecord
    THEN [exc |-> Exc("ValidationError", "Cannot delete plot with trees"),
          db |-> d]
    ELSE [exc |-> NoExc,
          db |-> [d EXCEPT
                    !.features = [k \in DOMAIN d.features \ {feature.pk} |->
                                     d.features[k]],
                    !.photos = [k \in DOMAIN d.photos \ photos(d, feature) |->
                                   d.photos[k]]]]

\* delete_map_feature(request, instance, feature_id, type)
delete_map_feature ==
    /\ AtHandler("delete_map_feature")
    /\ LET feature == get_map_feature_or_404(db, req.feature_id,
                                             req.instance, req.type)
           r == delete_with_user(db, feature)
       IN  IF feature = NoRecord
           THEN /\ Reply(Uncaught(Exc("Http404", "MapFeature")))
                /\ db' = db
           ELSE /\ db' = r.db
                /\ Reply(IF r.exc = NoExc
                         THEN [Response(200) EXCEPT !.ok = TRUE]
                         ELSE [Response(200) EXCEPT
                                  !.error = ErrText(Join("; ", <<r.exc.msg>>))])
    /\ UNCHANGED <<req, handler, checks, upd, before, served>>

----------------------------------------------------------------------------
(* Photos *)

\* the result of a wrapped photo function: the database it leaves, the
\* exception it raised and, of a ValidationError, its messages
FnResult(d, exc, messages) == [db |-> d, exc |-> exc, messages |-> messages]

\* the messages of the ValidationError get_image_from_request raises for
\* an upload that is no usable image
get_image_messages(image) ==
    IF image = "empty" THEN <<"No image">>
    ELSE <<"Invalid image", "Unreadable image">>

\* _add_map_feature_photo_helper(request, instance, feature_id)
add_map_feature_photo_helper(d, r) ==
    LET feature == get_map_feature_or_404(d, r.feature_id, r.instance, "")
    IN  IF feature = NoRecord
        THEN FnResult(d, Exc("Http404", "MapFeature"), <<>>)
        ELSE IF r.image # "image"
        THEN FnResult(d, Exc("ValidationError", "image"),
                      get_image_messages(r.image))
        ELSE FnResult([d EXCEPT !.photos = (NextPk(d.photos) :>
                                                Photo(feature.pk, 0, User))
                                            @@ d.photos],
                      NoExc, <<>>)

\* every multiple of 90 among the numerals
ValidOrientations_Multiples ==
    {"90", "180", "270", "-90", "-180", "-270", "0", "360"}

\* the values of 'degrees' rotate_map_feature_photo accepts
ValidOrientations == {"90", "180", "270", "-90", "-180", "-270"}

\* int(orientation), of a decimal numeral
int(orientation) ==
    CASE orientation = "90" -> 90
      [] orientation = "180" -> 180
      [] orientation = "270" -> 270
      [] orientation = "-90" -> -90
      [] orientation = "-180" -> -180
      [] orientation = "-270" -> -270
      [] orientation = "0" -> 0
      [] orientation = "360" -> 360
      [] orientation = "45" -> 45

\* the strings int() parses
Numerals == {"90", "180", "270", "-90", "-180", "-270", "0", "360", "45"}

\* mf_photo.set_image(image_data, degrees_to_rotate=degrees): the image
\* turned by degrees
Rotated(photo, degrees) ==
    [photo EXCEPT !.rotation = (photo.rotation + degrees) % 360]

\* get_object_or_404(MapFeaturePhoto, pk=photo_id): is there such a photo
PhotoFound(d, r) == r.photo_id \in DOMAIN d.photos

\* the body of rotate_map_feature_photo
rotate_map_feature_photo_body(d, r) ==
    IF r.degrees \notin ValidOrientations
    THEN FnResult(d, Exc("ValidationError", "degrees"),
                  <<"\"degrees\" must be a multiple of 90">>)
    ELSE IF ~PhotoFound(d, r)
    THEN FnResult(d, Exc("Http404", "MapFeaturePhoto"), <<>>)
    ELSE FnResult([d EXCEPT !.photos[r.photo_id] =
                      [Rotated(d.photos[r.photo_id], int(r.degrees))
                          EXCEPT !.user = User]],
                  NoExc, <<>>)

\* a wrapper that reads the photos before it calls the wrapped function
PhotosReadFrom_Early(atEntry, left) == atEntry

\* the database feature.photos() is read from in the wrapper: the one the
\* wrapped function left
PhotosReadFrom(atEntry, left) == left

\* get_photo_context_and_errors(fn): the response of the wrapper, from
\* the database before the call and the result of fn
get_photo_context_and_errors(atEntry, res, r) ==
    LET d == PhotosReadFrom(atEntry, res.db)
        feature == get_map_feature_or_404(d, r.feature_id, r.instance, "")
        error == IF res.exc.kind = "ValidationError"
                 THEN ErrText(Join("; ", res.messages))
                 ELSE ErrNone
    IN  IF res.exc # NoExc /\ res.exc.kind # "ValidationError"
        THEN Uncaught(res.exc)
        ELSE IF feature = NoRecord
        THEN Uncaught(Exc("Http404", "MapFeature"))
        ELSE [Response(200) EXCEPT
                 !.error = error,
                 !.photos = {context_dict_for_photo(d, p) :
                                p \in photos(d, feature)}]

\* add_map_feature_photo(request, instance, feature_id), wrapped
add_map_feature_photo ==
    /\ AtHandler("add_map_feature_photo")
    /\ LET res == add_map_feature_photo_helper(db, req)
       IN  /\ db' = res.db
           /\ Reply(get_photo_context_and_errors(db, res, req))
    /\ UNCHANGED <<req, handler, checks, upd, before, served>>

\* rotate_map_feature_photo(request, instance, feature_id, photo_id), wrapped
rotate_map_feature_photo ==
    /\ AtHandler("rotate_map_feature_photo")
    /\ LET res == rotate_map_feature_photo_body(db, req)
       IN  /\ db' = res.db
           /\ Reply(get_photo_context_and_errors(db, res, req))
    /\ UNCHANGED <<req, handler, checks, upd, before, served>>

----------------------------------------------------------------------------

Next ==
    \/ Dispatch
    \/ Close
    \/ render_map_feature_add
    \/ render_map_feature_detail
    \/ add_map_feature
    \/ update_map_feature_detail
    \/ update_map_feature_loop
    \/ update_map_feature_save_feature
    \/ update_map_feature_save_tree
    \/ update_map_feature_exit
    \/ delete_map_feature
    \/ add_map_feature_photo
    \/ rotate_map_feature_photo

Spec == Init /\ [][Next]_vars

----------------------------------------------------------------------------
(* Properties *)

UpdateHandlers == {"add_map_feature", "update_map_feature_detail"}
PhotoHandlers == {"add_map_feature_photo", "rotate_map_feature_photo"}

\* update_map_feature was called for the request and has raised or returned
UpdateDone == pc = "done" /\ handler \in UpdateHandlers /\ upd # NoUpdate

\* the fields and user-defined fields of a record
Content(thing) == <<thing.fields, thing.udfs>>

\* the record is stored in d as it is
Persisted(d, thing) ==
    /\ thing.pk \in DOMAIN Table(d, thing)
    /\ Content(Table(d, thing)[thing.pk]) = Content(thing)

SaveEvents == {upd.saves[i] : i \in DOMAIN upd.saves}

\* C1: update_map_feature is all-or-nothing.  When it returns, the
\* feature and (if the request had one) the tree are stored as the call left
\* them; when it raises, the database is exactly the one before the call.
C1_AllOrNothing ==
    UpdateDone =>
        IF Raised(upd) = NoExc
        THEN /\ resp.ok
             /\ Persisted(db, upd.feature)
             /\ upd.hasTree => Persisted(db, upd.tree)
        ELSE db = before

\* the feature was saved, the save of the tree then failed validation, and
\* the database is back to what it was
C1_Witness ==
    /\ UpdateDone
    /\ \E e \in SaveEvents : e.thing = "feature" /\ e.ok
    /\ \E e \in SaveEvents : e.thing = "tree" /\ ~e.ok
    /\ db = before

\* the key 'objectname.field' of an error dictionary
ErrorKey(thing, field) == <<to_object_name(thing.feature_type), ".", field>>

\* the fields of the record whose value does not validate
BadFields(thing) == {f \in DOMAIN thing.fields : thing.fields[f] = Bad}

\* the tree of the call differs from its stored row, or has none
TreeEdited ==
    /\ upd.hasTree
    /\ \/ upd.tree.pk \notin DOMAIN before.trees
       \/ upd.tree.udfs # before.trees[upd.tree.pk].udfs
       \/ \E f \in TreeFields \ {"plot"} :
             upd.tree.fields[f] # before.trees[upd.tree.pk].fields[f]

\* C2: update_map_feature raises ValidationError exactly when a save
\* failed validation; its dictionary is the union of the errors of the
\* records that failed; the tree is saved also after the feature failed; and
\* the response is a bad request carrying the dictionary.
C2_StructuredErrors ==
    (UpdateDone /\ upd.exc = NoExc) =>
        LET failed == {e \in SaveEvents : ~e.ok}
            keys == UNION {DOMAIN e.errors : e \in failed}
        IN  /\ (Raised(upd).kind = "ValidationError") <=> (failed # {})
            /\ TreeEdited => \E e \in SaveEvents : e.thing = "tree"
            /\ \A f \in BadFields(upd.feature) :
                  ErrorKey(upd.feature, f) \in DOMAIN resp.errors
            /\ upd.hasTree =>
                  \A f \in BadFields(upd.tree) :
                     ErrorKey(upd.tree, f) \in DOMAIN resp.errors
            /\ DOMAIN resp.errors = keys
            /\ \A e \in failed : \A k \in DOMAIN e.errors :
                  resp.errors[k] = e.errors[k]
            /\ IF failed # {}
               THEN resp.status = 400 /\ ~resp.ok
               ELSE resp.status = 200 /\ resp.ok /\ DOMAIN resp.errors = {}

\* both saves failed and the response carries the errors of both records
C2_Witness ==
    /\ UpdateDone
    /\ resp.status = 400
    /\ <<"plot", ".", "width">> \in DOMAIN resp.errors
    /\ <<"tree", ".", "height">> \in DOMAIN resp.errors

\* the part of an identifier before its first '.', <<>> when it has none
ModelPart(id) ==
    IF \E i \in DOMAIN id : id[i] = "."
    THEN SubSeq(id, 1, (CHOOSE i \in DOMAIN id :
                          id[i] = "." /\ \A j \in 1..(i - 1) : id[j] # ".") - 1)
    ELSE <<>>

\* C3: every key is routed to exactly one record: a feature object name to
\* the feature, 'tree' to the tree of a Plot, anything else raises; a key
\* touches only the record it is routed to, and every key of the request is
\* either routed or still to come.
C3_Routing ==
    /\ \A e \in upd.routed :
          LET m == ModelPart(e.id)
          IN  /\ (e.target = "feature") <=>
                    (\E i \in DOMAIN map_feature_types :
                        m = <<to_object_name(map_feature_types[i])>>)
              /\ (e.target = "tree") <=>
                    (m = <<"tree">> /\ upd.feature0.feature_type = "Plot")
              /\ e.target \in {"feature", "tree", "raise"}
              /\ e.target = "raise" => e.raised /\ upd.exc # NoExc
              /\ e.target # "feature" => ~e.onFeature
              /\ e.target # "tree" => ~e.onTree
              /\ ~e.raised /\ e.target = "tree" => upd.hasTree
    /\ pc \in {"update_loop", "update_save", "update_exit"} =>
          {e.id : e \in upd.routed} \cup {x.id : x \in upd.pending}
             = {x.id : x \in req.body}
    /\ Cardinality({e \in upd.routed : e.raised}) <= 1

\* a request on a plot had a key for the feature and a key for the tree
C3_Witness ==
    /\ pc = "update_save"
    /\ \E e \in upd.routed : e.target = "feature" /\ e.onFeature
    /\ \E e \in upd.routed : e.target = "tree" /\ e.onTree

\* the part of an identifier after its first '.'
FieldPart(id) == SubSeq(id, Len(ModelPart(id)) + 2, Len(id))

\* the record a routed key was for, as it is now
TargetRecord(e) == IF e.target = "tree" THEN upd.tree ELSE upd.feature

\* C4: a 'udf:' field is stored in model.udfs under its name when the
\* model defines that user-defined field and raises 'Invalid UDF' otherwise;
\* a field that is neither 'id', 'mapfeature_ptr', a 'udf:' name nor one of
\* model.fields() raises 'Malformed request - invalid field'; a key that
\* raises stores nothing.
C4_FieldNames ==
    \A e \in upd.routed :
        e.target \in {"feature", "tree"} =>
            LET f == FieldPart(e.id)
                class == TargetRecord(e).feature_type
                isUdf == Len(f) > 0 /\ f[1] = "udf:"
                defined == Len(f) = 2 /\ f[2] \in UdfNames(class)
                known == \/ f \in {<<"id">>, <<"mapfeature_ptr">>}
                         \/ isUdf
                         \/ Len(f) = 1 /\ f[1] \in ModelFields(class)
            IN  /\ isUdf /\ defined =>
                     /\ ~e.raised
                     /\ pc = "update_loop" =>
                           \E x \in req.body :
                              x.id = e.id /\ TargetRecord(e).udfs[f[2]] = x.val
                /\ isUdf /\ ~defined =>
                     /\ e.raised /\ ~e.changed
                     /\ upd.exc = Exc("KeyError", "Invalid UDF")
                /\ ~known =>
                     /\ e.raised /\ ~e.changed
                     /\ upd.exc = Exc("Exception",
                                      "Malformed request - invalid field")

\* C5: the pipelines let a mutating handler run only for its method and a
\* logged-in user (the photo endpoints check the method before the login),
\* and a GET to the add or the detail view reaches the render handler, with
\* or without login.
C5_Guards ==
    /\ handler = "add_map_feature" =>
          req.view = "map_feature_add_view" /\ req.method = "POST" /\ req.auth
    /\ handler = "update_map_feature_detail" =>
          req.view = "map_feature_detail_view" /\ req.method = "PUT" /\ req.auth
    /\ handler = "delete_map_feature" =>
          /\ req.view = "map_feature_detail_view"
          /\ req.method = "DELETE" /\ req.auth
    /\ handler \in PhotoHandlers =>
          /\ req.method = "POST" /\ req.auth
          /\ checks = <<"method", "login">>
          /\ (handler = "add_map_feature_photo")
                <=> (req.view = "add_map_feature_photo_endpoint")
    /\ req.view \in {"add_map_feature_photo_endpoint",
                     "rotate_map_feature_photo_endpoint"}
          /\ req.method # "POST" /\ pc = "done" => resp.status = 405
    /\ req.method = "GET" /\ req.view = "map_feature_add_view" =>
          /\ handler = "render_map_feature_add"
          /\ "login" \notin {checks[i] : i \in DOMAIN checks}
          /\ db = before
    /\ req.method = "GET" /\ req.view = "map_feature_detail_view" =>
          /\ handler = "render_map_feature_detail"
          /\ "login" \notin {checks[i] : i \in DOMAIN checks}
          /\ db = before
    /\ handler \in {"render_map_feature_add", "render_map_feature_detail"} =>
          req.method = "GET"
    /\ pc = "done" /\ (handler = "none" \/ ~req.auth) => db = before

\* a logged-in PUT has reached the update handler of the detail view
C5_Witness ==
    /\ pc = "handler"
    /\ handler = "update_map_feature_detail"
    /\ req.method = "PUT" /\ req.auth

AcceptedDegrees == {90, 180, 270, -90, -180, -270}

\* the wrapped photo function raised ValidationError
PhotoFailed ==
    \/ handler = "rotate_map_feature_photo"
          /\ ~(req.degrees \in Numerals /\ int(req.degrees) \in AcceptedDegrees)
    \/ handler = "add_map_feature_photo" /\ req.image # "image"

\* the error text the photo response has to carry
PhotoErrorText ==
    IF handler = "rotate_map_feature_photo"
    THEN <<"\"degrees\" must be a multiple of 90">>
    ELSE IF req.image = "empty" THEN <<"No image">>
    ELSE <<"Invalid image", "; ", "Unreadable image">>

PhotoDone == pc = "done" /\ handler \in PhotoHandlers

RotateDone == pc = "done" /\ handler = "rotate_map_feature_photo"

\* the response reports the 'degrees' validation error
DegreesRejected ==
    /\ resp.status = 200
    /\ resp.error = ErrText(<<"\"degrees\" must be a multiple of 90">>)

\* feature_id names a map feature of the request's instance
FeatureFound ==
    /\ req.feature_id \in DOMAIN before.features
    /\ before.features[req.feature_id].instance = req.instance

\* C7 as claimed: a request is accepted exactly when 'degrees' is a
\* multiple of 90.
C7_MultipleOf90 ==
    (RotateDone /\ FeatureFound) =>
        (DegreesRejected <=>
            ~(req.degrees \in Numerals /\ int(req.degrees) % 90 = 0))

\* C7, amended: a request is accepted exactly when 'degrees' is one of
\* 90, 180, 270, -90, -180, -270; then the photo photo_id, if there is one,
\* is turned by that many degrees and saved with the requesting user; any
\* other value changes nothing and is answered with the validation error
\* (with not-found when feature_id names no map feature of the instance).
C7_SixOrientations ==
    RotateDone =>
        LET ok == req.degrees \in Numerals /\ int(req.degrees) \in AcceptedDegrees
            p == req.photo_id
        IN  /\ DegreesRejected <=> (~ok /\ FeatureFound)
            /\ ~ok => db = before
            /\ ~ok /\ ~FeatureFound => resp.status = 404
            /\ ok /\ p \in DOMAIN before.photos =>
                  /\ db.photos[p].rotation =
                        (before.photos[p].rotation + int(req.degrees)) % 360
                  /\ db.photos[p].user = User
                  /\ db.photos[p].map_feature = before.photos[p].map_feature
                  /\ \A q \in DOMAIN db.photos \ {p} :
                        db.photos[q] = before.photos[q]
            /\ ok /\ p \notin DOMAIN before.photos =>
                  resp.status = 404 /\ db = before

\* 'degrees' of -90 has turned a photo to 270
C7_Witness ==
    /\ RotateDone
    /\ req.degrees = "-90"
    /\ req.photo_id \in DOMAIN db.photos
    /\ db.photos[req.photo_id].rotation = 270
    /\ db.photos[req.photo_id].user = User

\* the request has a key whose model part is 'tree'
HasTreeKey == \E x \in req.body : ModelPart(x.id) = <<"tree">>

\* the tree the plot of the call had when the call began
TreeAtEntry == current_tree(before, upd.feature0)

IdKeys == {e \in upd.routed :
              /\ e.target \in {"feature", "tree"}
              /\ FieldPart(e.id) \in {<<"id">>, <<"mapfeature_ptr">>}}

ValueOf(id) == (CHOOSE x \in req.body : x.id = id).val

\* the primary key the record of a routed key had when the call began
PkAtEntry(e) ==
    IF e.target = "feature" THEN upd.feature0.pk ELSE TreeAtEntry.pk

\* the rules of C9 for the 'id' and 'mapfeature_ptr' keys: a value that
\* differs from the record's identity raises and nothing is saved, an equal
\* value is accepted and marks nothing as updated
IdKeyRules ==
    \A e \in IdKeys :
        IF ValueOf(e.id) = PkValue(PkAtEntry(e))
              /\ ~(e.target = "tree" /\ FieldPart(e.id) = <<"mapfeature_ptr">>)
        THEN ~e.raised /\ ~e.changed
        ELSE /\ e.raised /\ ~e.changed
             /\ upd.saves = <<>>
             /\ pc = "done" => db = before /\ resp.status = 500

\* C9 as claimed: the primary key of the feature and of the tree after the
\* call equals the one before it.
C9_SamePk ==
    /\ UpdateDone =>
          /\ upd.feature.pk = upd.feature0.pk
          /\ upd.hasTree => upd.tree.pk = TreeAtEntry.pk
    /\ IdKeyRules

\* C9, amended: the primary key of a feature or tree that was stored
\* before the call equals the one before it, a record that was not stored
\* gets a primary key no stored record had, and rows keep their keys; the
\* rules for the 'id' and 'mapfeature_ptr' keys are as claimed.
C9_SamePkOfStored ==
    /\ (handler \in UpdateHandlers /\ upd # NoUpdate) =>
          /\ upd.feature0.pk # NoPk => upd.feature.pk = upd.feature0.pk
          /\ upd.feature0.pk = NoPk =>
                upd.feature.pk \notin DOMAIN before.features
          /\ upd.hasTree /\ TreeAtEntry # NoRecord =>
                upd.tree.pk = TreeAtEntry.pk
          /\ upd.hasTree /\ TreeAtEntry = NoRecord =>
                upd.tree.pk \notin DOMAIN before.trees
          /\ \A k \in DOMAIN upd.tx.features : upd.tx.features[k].pk = k
          /\ \A k \in DOMAIN upd.tx.trees : upd.tx.trees[k].pk = k
          /\ \A k \in DOMAIN before.features : k \in DOMAIN upd.tx.features
    /\ \A k \in DOMAIN db.features : db.features[k].pk = k
    /\ \A k \in DOMAIN db.trees : db.trees[k].pk = k
    /\ IdKeyRules

\* a request with 'plot.id' equal to the plot's key and a changed width
\* was saved under the same key
C9_Witness ==
    /\ UpdateDone
    /\ resp.ok
    /\ \E e \in IdKeys : ~e.raised /\ e.target = "feature"
    /\ upd.feature0.pk # NoPk
    /\ resp.featureId = upd.feature0.pk
    /\ db.features[resp.featureId] # before.features[resp.featureId]

\* C10: rotate_map_feature_photo changes only a photo of the map feature
\* feature_id of the request's instance; a photo_id of another feature or
\* instance is answered with not-found and the photo is left as it was.
C10_OwnPhotoOnly ==
    RotateDone =>
        /\ \A p \in DOMAIN before.photos :
              db.photos[p] # before.photos[p] =>
                 /\ FeatureFound
                 /\ before.photos[p].map_feature = req.feature_id
        /\ (/\ req.photo_id \in DOMAIN before.photos
            /\ ~(FeatureFound /\ before.photos[req.photo_id].map_feature
                                    = req.feature_id)) =>
              resp.status = 404 \/ DegreesRejected

====
